---- MODULE Spec2Model ----
(***************************************************************************)
(* pgmon: the session controller of the terminal dashboard, its chart and   *)
(* its command line.                                                       *)
(*                                                                         *)
(*   src/src/tui/app.rs    App (session state), App::run (run loop),       *)
(*                         App::set_tab, App::refresh_data                 *)
(*   src/src/tui/ui.rs     draw_conn_chart, resample                       *)
(*   src/src/pg/client.rs  PgClient: the fetches refresh_data calls        *)
(*   src/src/cli           the --refresh-ms option and the start of a run  *)
(*                                                                         *)
(* Spec      the whole of App::run, one action per step of the function,   *)
(*           with the database and the terminal as nondeterministic        *)
(*           environments (every `?` of the code is a possible early       *)
(*           return).  What a draw puts on the screen is left to SpecChart.*)
(* SpecHist  a session on the Activity tab that is refreshed often enough   *)
(*           for the connection history to pass CONN_HISTORY_SIZE.         *)
(* SpecChart the connection chart drawn from a history and an area.        *)
(* SpecCli   the process from its command line to the first test of the    *)
(*           run loop.                                                     *)
(* SpecThread  App::run from the spawn of its polling thread on, with the  *)
(*           thread and its channel; the session stays on its home tab.    *)
(*           Spec leaves the thread out: it shares nothing with the        *)
(*           session but the channel, which the loop never reads.          *)
(* SpecLive  App::run with no input but the quit key, under weak fairness  *)
(*           of the steps of run() itself.                                 *)
(* SpecF64   the connection chart with the values of its lines in          *)
(*           binary64; SpecChart carries them as exact fractions.          *)
(*                                                                         *)
(* Time is the reading of last_refresh.elapsed(), counted in steps of the  *)
(* 50 ms an event::poll waits: a poll that times out takes one step, a     *)
(* poll that meets an event takes none or one; a fetch and every other     *)
(* call take no time.  Under Spec refresh_ms is the least value the        *)
(* command line accepts.  Counts are small, so i64 arithmetic never wraps; *)
(* cache_hit_pct is an integer percentage.  The cursor is hidden by        *)
(* Terminal::draw (ratatui).                                               *)
(***************************************************************************)
EXTENDS Integers, Sequences, FiniteSets, TLC

VARIABLES
    current_tab,     \* App.current_tab
    data,            \* App.data: rows of the generic table
    dashboard,       \* App.dashboard: DashboardStats
    should_quit,     \* App.should_quit
    selected_row,    \* App.selected_row
    refresh_ms,      \* App.refresh_ms
    elapsed,         \* App.last_refresh.elapsed(), in milliseconds
    terminal,        \* the terminal's mode: raw mode, alternate screen, mouse, cursor
    pc,              \* position of App::run
    result,          \* what App::run returned, and the step whose error it returned
    event,           \* the event the latest poll of the loop consumed
    refresh_result,  \* what refresh_data returned in the latest step ("none": not called)
    pushes,          \* number of Activity refreshes that returned Ok so far
    args,            \* the command line: its --refresh-ms option
    frame,           \* the area draw_conn_chart was given and what it drew there
    thread,          \* position of the polling thread App::run spawns
    channel          \* the mpsc channel of that thread: receiver alive, messages queued

vars == <<current_tab, data, dashboard, should_quit, selected_row, refresh_ms,
          elapsed, terminal, pc, result, event, refresh_result, pushes, args, frame,
          thread, channel>>

(***************************************************************************)
(* Bounds of the model.                                                    *)
(***************************************************************************)
\* most rows a fetch returns
MaxRows == 2
\* most samples the history holds under Spec (the database fails afterwards)
MaxHistory == 1
\* pushes made under SpecHist
MaxHistPushes == 603
\* longest history SpecChart builds out of ChartSamples
MaxChartLen == 3
\* most connections of the single sample SpecChart starts from
MaxConn == 21
\* widest chart SpecChart draws
MaxChartWidth == 5
\* how far either side of the ends of the accepted range SpecCli's values go
MaxCliSpread == 2
\* sends of the polling thread SpecThread follows
MaxMsgs == 3

MaxF64Len == 3

MaxF64Points == 6

(***************************************************************************)
(* Program constants.                                                      *)
(***************************************************************************)
CONN_HISTORY_SIZE == 600
\* event::poll(Duration::from_millis(50))
PollMs == 50
\* the range clap accepts for --refresh-ms, and its default_value
MinRefreshMs == 200
MaxRefreshMs == 60000
DefaultRefreshMs == 1000

Tabs == {"Activity", "Database", "Locks", "IO", "Statements"}

\* App::new: any home view but "statements" opens the Activity tab
HomeTab(home_view) == IF home_view = "statements" THEN "Statements" ELSE "Activity"

HomeViews == {"activity", "statements"}

(***************************************************************************)
(* Rows, as the fetches of PgClient build them: a row is a sequence of     *)
(* strings, one per column.                                                *)
(***************************************************************************)
RowKey == <<"r1", "r2", "r3", "r4">>

NumCols(tab) ==
    CASE tab = "Database"   -> 8
      [] tab = "Locks"      -> 4
      [] tab = "IO"         -> 5
      [] tab = "Statements" -> 6
      [] tab = "Activity"   -> 5

Row(tab, i) == [c \in 1..NumCols(tab) |-> IF c = 1 THEN RowKey[i] ELSE tab]

Rows(tab, n) == [i \in 1..n |-> Row(tab, i)]

IoUnavailable == <<<<"pg_stat_io not available (PG 16+ required)">>>>
StatementsNotInstalled == <<<<"pg_stat_statements not installed">>>>
StatementsNotLoaded == <<<<"pg_stat_statements library not loaded">>>>

\* a Result<T>
Ok(v) == [ok |-> TRUE, val |-> v]
Fail == [ok |-> FALSE]

(***************************************************************************)
(* The database, as one refresh sees it.                                   *)
(*   connect   whether Client::connect succeeds                            *)
(*   conn, active, perf   the Results of the three Activity queries        *)
(*   feature   the probe of the optional feature (view_exists,             *)
(*             extension_exists): "present", "missing" or "err"            *)
(*   query     the tab's query: "ok", "err", or "not_loaded" (an error     *)
(*             whose text names shared_preload_libraries)                  *)
(*   n         the number of rows the tab's query returns                  *)
(***************************************************************************)
fetch_database_stats(db) == IF db.query = "ok" THEN Ok(Rows("Database", db.n)) ELSE Fail

fetch_locks(db) == IF db.query = "ok" THEN Ok(Rows("Locks", db.n)) ELSE Fail

\* a fetch that reports the missing view as an error
fetch_io_statsStrict(db) ==
    IF db.feature = "err" THEN Fail
    ELSE IF db.feature = "missing" THEN Fail
    ELSE IF db.query = "ok" THEN Ok(Rows("IO", db.n))
    ELSE Fail

fetch_io_stats(db) ==
    IF db.feature = "err" THEN Fail
    ELSE IF db.feature = "missing" THEN Ok(IoUnavailable)
    ELSE IF db.query = "ok" THEN Ok(Rows("IO", db.n))
    ELSE Fail

fetch_statements(db) ==
    IF db.feature = "err" THEN Fail
    ELSE IF db.feature = "missing" THEN Ok(StatementsNotInstalled)
    ELSE IF db.query = "ok" THEN Ok(Rows("Statements", db.n))
    ELSE IF db.query = "not_loaded" THEN Ok(StatementsNotLoaded)
    ELSE Fail

fetch_conn_stats(db) == db.conn

fetch_active_queries(db) == db.active

fetch_perf_stats(db) == db.perf

(***************************************************************************)
(* DashboardStats                                                          *)
(***************************************************************************)
DashboardDefault ==
    [conn_by_state   |-> <<>>,
     active_queries  |-> <<>>,
     cache_hit_pct   |-> 0,
     total_commits   |-> 0,
     total_rollbacks |-> 0,
     total_backends  |-> 0,
     max_connections |-> 0,
     conn_history    |-> <<>>]

\* a lookup that takes every state that begins with "idle" for idle
CountOfLoose(conn, label) ==
    LET hits == {i \in 1..Len(conn) :
                    \/ conn[i][1] = label
                    \/ label = "idle" /\ conn[i][1] = "idle in transaction"}
    IN  IF hits = {} THEN 0
        ELSE conn[CHOOSE i \in hits : \A j \in hits : i <= j][2]

\* .iter().find(|(s, _)| s == label).map_or(0, |(_, c)| *c)
CountOf(conn, label) ==
    LET hits == {i \in 1..Len(conn) : conn[i][1] = label}
    IN  IF hits = {} THEN 0
        ELSE conn[CHOOSE i \in hits : \A j \in hits : i <= j][2]

\* .iter().map(|(_, c)| c).sum()
RECURSIVE SumCounts(_)
SumCounts(conn) == IF conn = <<>> THEN 0 ELSE Head(conn)[2] + SumCounts(Tail(conn))

\* PushHistory with the eviction test off by one (len > CONN_HISTORY_SIZE)
PushHistoryLate(history, sample) ==
    LET kept == IF Len(history) > CONN_HISTORY_SIZE THEN Tail(history) ELSE history
    IN  Append(kept, sample)

\* the bounded insertion into conn_history
PushHistory(history, sample) ==
    LET kept == IF Len(history) >= CONN_HISTORY_SIZE THEN Tail(history) ELSE history
    IN  Append(kept, sample)

\* the Activity arm of refresh_data, once the client is connected
RefreshActivity(d, old_data, db) ==
    LET r1 == fetch_conn_stats(db) IN
    IF ~r1.ok THEN [dashboard |-> d, data |-> old_data, ok |-> FALSE]
    ELSE
    LET d1 == [d EXCEPT !.conn_by_state = r1.val]
        r2 == fetch_active_queries(db) IN
    IF ~r2.ok THEN [dashboard |-> d1, data |-> old_data, ok |-> FALSE]
    ELSE
    LET d2 == [d1 EXCEPT !.active_queries = r2.val]
        r3 == fetch_perf_stats(db) IN
    IF ~r3.ok THEN [dashboard |-> d2, data |-> old_data, ok |-> FALSE]
    ELSE
    LET d3 == [d2 EXCEPT !.cache_hit_pct   = r3.val[1],
                         !.total_commits   = r3.val[2],
                         !.total_rollbacks = r3.val[3],
                         !.total_backends  = r3.val[4],
                         !.max_connections = r3.val[5]]
        active_count == CountOf(d3.conn_by_state, "active")
        idle_count   == CountOf(d3.conn_by_state, "idle")
        total_count  == SumCounts(d3.conn_by_state)
        d4 == [d3 EXCEPT !.conn_history =
                   PushHistory(@, <<active_count, idle_count, total_count>>)]
    IN  [dashboard |-> d4, data |-> <<>>, ok |-> TRUE]

\* RefreshTable that stores the fetch's rows before looking at its Result: a
\* failed fetch empties the table
RefreshTableEager(d, old_data, r) ==
    IF r.ok THEN [dashboard |-> d, data |-> r.val, ok |-> TRUE]
    ELSE [dashboard |-> d, data |-> <<>>, ok |-> FALSE]

\* RefreshTable that adds the rows fetched to those it holds
RefreshTableMerging(d, old_data, r) ==
    IF r.ok THEN [dashboard |-> d, data |-> old_data \o r.val, ok |-> TRUE]
    ELSE [dashboard |-> d, data |-> old_data, ok |-> FALSE]

\* the other arms of refresh_data: self.data = client.fetch_...()?
RefreshTable(d, old_data, r) ==
    IF r.ok THEN [dashboard |-> d, data |-> r.val, ok |-> TRUE]
    ELSE [dashboard |-> d, data |-> old_data, ok |-> FALSE]

\* App::refresh_data: the session's data and dashboard afterwards, and whether
\* it returned Ok
refresh_data(tab, d, old_data, db) ==
    IF ~db.connect THEN [dashboard |-> d, data |-> old_data, ok |-> FALSE]
    ELSE CASE tab = "Activity"   -> RefreshActivity(d, old_data, db)
           [] tab = "Database"   -> RefreshTable(d, old_data, fetch_database_stats(db))
           [] tab = "Locks"      -> RefreshTable(d, old_data, fetch_locks(db))
           [] tab = "IO"         -> RefreshTable(d, old_data, fetch_io_stats(db))
           [] tab = "Statements" -> RefreshTable(d, old_data, fetch_statements(db))

\* set_tab that resets the selection only when its refresh returned Ok
set_tabResetOnOk(tab, sel, d, old_data, db) ==
    LET r == refresh_data(tab, d, old_data, db)
    IN  [current_tab |-> tab, selected_row |-> IF r.ok THEN 0 ELSE sel,
         dashboard |-> r.dashboard, data |-> r.data, ok |-> r.ok]

\* App::set_tab: the refresh's Result is dropped (let _ = ...)
set_tab(tab, sel, d, old_data, db) ==
    LET r == refresh_data(tab, d, old_data, db)
    IN  [current_tab |-> tab, selected_row |-> 0,
         dashboard |-> r.dashboard, data |-> r.data, ok |-> r.ok]

\* the row collection the Down key measures
ActiveLen(tab, d, rows) == IF tab = "Activity" THEN Len(d.active_queries) ELSE Len(rows)

\* a Down key that stops one row late, at index len
KeyDownLoose(tab, d, rows, sel) ==
    LET len == ActiveLen(tab, d, rows)
    IN  IF len > 0 /\ sel < len THEN sel + 1 ELSE sel

\* KeyCode::Down
KeyDown(tab, d, rows, sel) ==
    LET len == ActiveLen(tab, d, rows)
    IN  IF len > 0 /\ sel < len - 1 THEN sel + 1 ELSE sel

\* KeyCode::Up
KeyUp(sel) == IF sel > 0 THEN sel - 1 ELSE sel

(***************************************************************************)
(* src/src/tui/ui.rs: the connection chart.  An f64 the chart computes is  *)
(* kept as the exact fraction num / den, so a value equals another when    *)
(* the cross products are equal; the rounding of f64 is left out.          *)
(***************************************************************************)
Max(a, b) == IF a >= b THEN a ELSE b

Min(a, b) == IF a <= b THEN a ELSE b

\* the closures handed to resample: |&(_, _, t)| t as f64, |&(_, i, _)| i as f64
Extract(field, sample) == IF field = "total" THEN sample[3] ELSE sample[2]

\* one element (i as f64, v) of resample's Vec, v = num / den
Point(i, num, den) == [x |-> i, num |-> num, den |-> den]

\* a flat line that holds one point whatever the width asked for
FlatLineOnePoint(v, target_len) == <<Point(0, v, 1)>>

\* history.len() == 1: (0..target_len).map(|i| (i as f64, v))
FlatLine(v, target_len) == [k \in 1..target_len |-> Point(k - 1, v, 1)]

\* an interpolation that takes the sample to the left as it is
LerpStep(a, b, frac_num, den) == a * den

\* the numerator of a * (1.0 - frac) + b * frac for frac = frac_num / den
Lerp(a, b, frac_num, den) == a * (den - frac_num) + b * frac_num

\* an index range that leaves the last point out
PointIndexShort(target_len) == 1..(target_len - 1)

\* (0..target_len), as the indices 1..target_len of the Vec collected
PointIndex(target_len) == 1..target_len

\* resample, for two samples or more: t = i / den, pos = t * (src_len - 1) =
\* pos_num / den, lo = floor(pos) capped, frac = pos - lo = frac_num / den
Interpolate(history, target_len, field) ==
    LET src_len == Len(history)
        den == Max(target_len - 1, 1)
    IN  [k \in PointIndex(target_len) |->
            LET i == k - 1
                pos_num == i * (src_len - 1)
                lo == Min(pos_num \div den, src_len - 2)
                hi == lo + 1
                frac_num == pos_num - lo * den
            IN  Point(i, Lerp(Extract(field, history[lo + 1]),
                              Extract(field, history[hi + 1]), frac_num, den), den)]

\* fn resample(history, target_len, extract) -> Vec<(f64, f64)>
resample(history, target_len, field) ==
    IF Len(history) = 0 \/ target_len = 0 THEN <<>>
    ELSE IF Len(history) = 1 THEN FlatLine(Extract(field, history[1]), target_len)
    ELSE Interpolate(history, target_len, field)

\* idle_pct: a division of i64, which drops the fraction
IdlePct(idle_now, total_now) ==
    IF total_now > 0 THEN (idle_now * 100) \div total_now ELSE 0

\* a severity that turns red at 80 already
IdleColorInclusive(idle_pct) ==
    IF idle_pct >= 80 THEN "Red" ELSE IF idle_pct > 50 THEN "Yellow" ELSE "Green"

\* idle severity: green if low, yellow if >50%, red if >80%
IdleColor(idle_pct) ==
    IF idle_pct > 80 THEN "Red" ELSE IF idle_pct > 50 THEN "Yellow" ELSE "Green"

\* nothing drawn yet
NoFrame ==
    [drawn |-> FALSE, width |-> 0, total_data |-> <<>>, idle_data |-> <<>>,
     idle_now |-> 0, total_now |-> 0, idle_pct |-> 0, idle_color |-> "Green"]

\* chart_width = area.width.saturating_sub(10)
TargetLenOf(area_width) == IF area_width > 10 THEN area_width - 10 ELSE 0

\* draw_conn_chart over an area `area_width` cells wide: the two lines it plots
\* and the idle figure of its title
draw_conn_chart(history, area_width) ==
    LET chart_width == IF area_width > 10 THEN area_width - 10 ELSE 0
        now == IF Len(history) > 0 THEN history[Len(history)] ELSE <<0, 0, 0>>
        idle_pct == IdlePct(now[2], now[3])
    IN  [drawn |-> TRUE, width |-> area_width,
         total_data |-> resample(history, chart_width, "total"),
         idle_data |-> resample(history, chart_width, "idle"),
         idle_now |-> now[2], total_now |-> now[3],
         idle_pct |-> idle_pct, idle_color |-> IdleColor(idle_pct)]

(***************************************************************************)
(* binary64, for the values resample computes.  resample above carries its *)
(* values as exact fractions; the operators below round every operation as *)
(* f64 does.  A value is the dyadic number n * 2^e it stands for, with n a  *)
(* natural number of any size held as its digits in base 2^15, the least    *)
(* significant first, since the integers of TLC end at 2^31.  Every value   *)
(* of resample is >= 0 and far from the subnormal and the overflow range,   *)
(* so there is no sign and no limit on e.                                   *)
(***************************************************************************)
MantissaBits == 53

Base == 2^15

LimbBits == CHOOSE k \in 1..30 : 2^k = Base

RECURSIVE BigTrim(_)
\* x without its leading (last) zero digits
BigTrim(x) ==
    IF x = <<>> THEN x
    ELSE IF x[Len(x)] = 0 THEN BigTrim(SubSeq(x, 1, Len(x) - 1)) ELSE x

RECURSIVE BigOfNat(_)
BigOfNat(k) == IF k = 0 THEN <<>> ELSE <<k % Base>> \o BigOfNat(k \div Base)

RECURSIVE BigToNat(_)
\* for x below 2^31
BigToNat(x) == IF x = <<>> THEN 0 ELSE Head(x) + Base * BigToNat(Tail(x))

Limb(x, k) == IF k <= Len(x) THEN x[k] ELSE 0

RECURSIVE BigAddFrom(_, _, _, _)
BigAddFrom(x, y, k, carry) ==
    IF k > Len(x) /\ k > Len(y) THEN BigOfNat(carry)
    ELSE LET s == Limb(x, k) + Limb(y, k) + carry
         IN  <<s % Base>> \o BigAddFrom(x, y, k + 1, s \div Base)

BigAdd(x, y) == BigAddFrom(x, y, 1, 0)

RECURSIVE BigSubFrom(_, _, _, _)
BigSubFrom(x, y, k, borrow) ==
    IF k > Len(x) THEN <<>>
    ELSE LET s == Limb(x, k) - Limb(y, k) - borrow
         IN  <<(s + Base) % Base>> \o BigSubFrom(x, y, k + 1, IF s < 0 THEN 1 ELSE 0)

\* x - y for x >= y
BigSub(x, y) == BigTrim(BigSubFrom(x, y, 1, 0))

RECURSIVE BigMulFrom(_, _, _, _)
BigMulFrom(x, m, k, carry) ==
    IF k > Len(x) THEN BigOfNat(carry)
    ELSE LET s == x[k] * m + carry
         IN  <<s % Base>> \o BigMulFrom(x, m, k + 1, s \div Base)

\* x * m for m < Base
BigMulSmall(x, m) == IF m = 0 THEN <<>> ELSE BigMulFrom(x, m, 1, 0)

RECURSIVE BigDivFrom(_, _, _, _)
\* long division of the digits k .. 1 of x by d, r the remainder so far
BigDivFrom(x, d, k, r) ==
    IF k = 0 THEN [q |-> <<>>, r |-> r]
    ELSE LET cur == r * Base + x[k]
             rest == BigDivFrom(x, d, k - 1, cur % d)
         IN  [q |-> rest.q \o <<cur \div d>>, r |-> rest.r]

\* quotient and remainder of x / d for 0 < d <= Base
BigDivSmall(x, d) ==
    LET res == BigDivFrom(x, d, Len(x), 0) IN [q |-> BigTrim(res.q), r |-> res.r]

BigShiftLeft(x, s) ==
    IF x = <<>> THEN x
    ELSE [j \in 1..(s \div LimbBits) |-> 0] \o BigMulSmall(x, 2^(s % LimbBits))

BigShiftRight(x, s) ==
    IF s \div LimbBits >= Len(x) THEN <<>>
    ELSE BigDivSmall(SubSeq(x, s \div LimbBits + 1, Len(x)), 2^(s % LimbBits)).q

\* the number of binary digits of x
BigBitLen(x) ==
    IF x = <<>> THEN 0
    ELSE LimbBits * (Len(x) - 1)
           + (CHOOSE k \in 1..LimbBits : 2^(k - 1) <= x[Len(x)] /\ x[Len(x)] < 2^k)

RECURSIVE BigCmpFrom(_, _, _)
BigCmpFrom(x, y, k) ==
    IF k = 0 THEN 0
    ELSE IF x[k] > y[k] THEN 1
    ELSE IF x[k] < y[k] THEN -1
    ELSE BigCmpFrom(x, y, k - 1)

\* 1, 0 or -1 as x is above, at or below y
BigCmp(x, y) ==
    IF Len(x) > Len(y) THEN 1
    ELSE IF Len(x) < Len(y) THEN -1
    ELSE BigCmpFrom(x, y, Len(x))

\* the dyadic number n * 2^e
Dy(n, e) == [n |-> n, e |-> e]

\* the digits of x at the exponent e <= x.e
DyAlign(x, e) == BigShiftLeft(x.n, x.e - e)

DyAdd(x, y) ==
    LET e == Min(x.e, y.e) IN Dy(BigAdd(DyAlign(x, e), DyAlign(y, e)), e)

\* x - y for x >= y
DySub(x, y) ==
    LET e == Min(x.e, y.e) IN Dy(BigSub(DyAlign(x, e), DyAlign(y, e)), e)

DyCmp(x, y) ==
    LET e == Min(x.e, y.e) IN BigCmp(DyAlign(x, e), DyAlign(y, e))

\* the f64 nearest to x, the even one of two equally near
RoundF64(x) ==
    LET s == BigBitLen(x.n) - MantissaBits
    IN  IF s <= 0 THEN x
        ELSE LET q == BigShiftRight(x.n, s)
                 rem == BigSub(x.n, BigShiftLeft(q, s))
                 c == BigCmp(rem, BigShiftLeft(<<1>>, s - 1))
                 up == c > 0 \/ (c = 0 /\ Limb(q, 1) % 2 = 1)
             IN  Dy(IF up THEN BigAdd(q, <<1>>) ELSE q, x.e + s)

\* `k as f64` for an integer 0 <= k < 2^31: exact
F64OfInt(k) == Dy(BigOfNat(k), 0)

\* i as f64 / d as f64: the quotient to 68 binary places and one digit more
\* that tells whether anything is left, rounded
F64Div(i, d) ==
    LET k == MantissaBits + LimbBits
        res == BigDivSmall(BigShiftLeft(BigOfNat(i), k), d)
        sticky == IF res.r = 0 THEN 0 ELSE 1
    IN  RoundF64(Dy(BigAdd(BigMulSmall(res.q, 2), BigOfNat(sticky)), 0 - k - 1))

\* (m as f64) * x for an integer 0 <= m < 2^15
F64Mul(m, x) == RoundF64(Dy(BigMulSmall(x.n, m), x.e))

F64Add(x, y) == RoundF64(DyAdd(x, y))

\* x - y for x >= y
F64Sub(x, y) == RoundF64(DySub(x, y))

\* `x as usize`: the fraction dropped
F64ToUsize(x) ==
    IF x.e >= 0 THEN BigToNat(BigShiftLeft(x.n, x.e))
    ELSE BigToNat(BigShiftRight(x.n, 0 - x.e))

\* pos = t * (src_len - 1) as f64 with t = i as f64 / (target_len - 1).max(1) as f64
PosF64(src_len, target_len, i) ==
    F64Mul(src_len - 1, F64Div(i, Max(target_len - 1, 1)))

\* lo = (pos as usize).min(src_len - 2)
LoF64(src_len, target_len, i) ==
    Min(F64ToUsize(PosF64(src_len, target_len, i)), src_len - 2)

\* an interpolation whose weights are the wrong way round
LerpF64Swapped(a, b, frac) ==
    F64Add(F64Mul(b, F64Sub(F64OfInt(1), frac)), F64Mul(a, frac))

\* a * (1.0 - frac) + b * frac
LerpF64(a, b, frac) ==
    F64Add(F64Mul(a, F64Sub(F64OfInt(1), frac)), F64Mul(b, frac))

\* one element (i as f64, v) of resample's Vec, v an f64
PointF64(i, v) == [x |-> i, v |-> v]

\* fn resample(history, target_len, extract) -> Vec<(f64, f64)>, in f64
resampleF64(history, target_len, field) ==
    IF Len(history) = 0 \/ target_len = 0 THEN <<>>
    ELSE IF Len(history) = 1
    THEN [k \in PointIndex(target_len) |->
             PointF64(k - 1, F64OfInt(Extract(field, history[1])))]
    ELSE LET src_len == Len(history)
         IN  [k \in PointIndex(target_len) |->
                 LET i == k - 1
                     lo == LoF64(src_len, target_len, i)
                     hi == lo + 1
                     frac == F64Sub(PosF64(src_len, target_len, i), F64OfInt(lo))
                 IN  PointF64(i, LerpF64(Extract(field, history[lo + 1]),
                                         Extract(field, history[hi + 1]), frac))]

\* draw_conn_chart with the two lines in f64
draw_conn_chartF64(history, area_width) ==
    [draw_conn_chart(history, area_width)
        EXCEPT !.total_data = resampleF64(history, TargetLenOf(area_width), "total"),
               !.idle_data = resampleF64(history, TargetLenOf(area_width), "idle")]

(***************************************************************************)
(* What the environment can answer.                                        *)
(***************************************************************************)
ConnChoices ==
    { <<<<"active", 5>>, <<"idle", 20>>>>,
      <<<<"idle in transaction", 1>>, <<"idle", 2>>>> }

ActiveChoices == {Rows("Activity", n) : n \in 0..MaxRows}

\* (cache hit %, commits, rollbacks, backends, max_connections)
PerfChoices == { <<99, 10, 1, 25, 100>> }

DbDown ==
    [connect |-> FALSE, conn |-> Fail, active |-> Fail, perf |-> Fail,
     feature |-> "err", query |-> "err", n |-> 0]

\* the databases an Activity refresh can meet; `full` says whether one on which
\* all three queries succeed is among them
ActivityDbs(full) ==
    {DbDown}
    \cup {[DbDown EXCEPT !.connect = TRUE]}
    \cup {[DbDown EXCEPT !.connect = TRUE, !.conn = Ok(c)] : c \in ConnChoices}
    \cup {[DbDown EXCEPT !.connect = TRUE, !.conn = Ok(c), !.active = Ok(a)] :
              c \in ConnChoices, a \in ActiveChoices}
    \cup (IF full
          THEN {[DbDown EXCEPT !.connect = TRUE, !.conn = Ok(c), !.active = Ok(a),
                               !.perf = Ok(p)] :
                    c \in ConnChoices, a \in ActiveChoices, p \in PerfChoices}
          ELSE {})

\* the databases a refresh of another tab can meet: the probe of the optional
\* feature matters to the IO and Statements tabs only, a query error that names
\* shared_preload_libraries to the Statements tab only
TableDbs(tab) ==
    LET up == [DbDown EXCEPT !.connect = TRUE, !.feature = "present"]
        features == IF tab \in {"IO", "Statements"} THEN {"missing", "err"} ELSE {}
        errors == IF tab = "Statements" THEN {"err", "not_loaded"} ELSE {"err"}
    IN  {DbDown}
        \cup {[up EXCEPT !.feature = f] : f \in features}
        \cup {[up EXCEPT !.query = q] : q \in errors}
        \cup {[up EXCEPT !.query = "ok", !.n = n] : n \in 0..MaxRows}

\* the databases a refresh of `tab` can meet under Spec: once the history holds
\* MaxHistory samples, no Activity refresh succeeds any more
Databases(tab) ==
    IF tab = "Activity" THEN ActivityDbs(pushes < MaxHistory) ELSE TableDbs(tab)

Keys == {"q", "1", "2", "3", "4", "5", "Down", "Up", "other"}

TabKeys == {"1", "2", "3", "4", "5"}

TabOfKey(k) ==
    CASE k = "1" -> "Activity"
      [] k = "2" -> "Database"
      [] k = "3" -> "Locks"
      [] k = "4" -> "IO"
      [] k = "5" -> "Statements"

\* what one pass over `event::poll(..) && event::read()?` can meet
Events == {"timeout", "poll_err", "read_err", "non_key"} \cup Keys

\* the time one event::poll(50 ms) can take: the whole wait when it times out;
\* an event or an error ends it at once or at any moment of the wait (the
\* clock counts in steps of PollMs)
PollWait(ev) == IF ev = "timeout" THEN {PollMs} ELSE {0, PollMs}

\* App::run has not returned / returned Ok(()) / returned the error of step `at`
Running == [status |-> "running", at |-> "none"]
ReturnedOk == [status |-> "Ok", at |-> "none"]
ReturnedErr(at) == [status |-> "Err", at |-> at]

\* before mpsc::channel(), and after the receiver is dropped
NoChannel == [rx |-> FALSE, queue |-> <<>>]

TerminalDefault ==
    [raw_mode |-> FALSE, alt_screen |-> FALSE, mouse_capture |-> FALSE,
     cursor_hidden |-> FALSE]

(***************************************************************************)
(* src/src/cli: the command line.  The text given to --refresh-ms is kept  *)
(* as the number it spells; a text that spells no u64 is a negative one.   *)
(***************************************************************************)
ArgsOf(given, value) == [refresh_ms |-> [given |-> given, value |-> value]]

\* a parser of u64 that knows no range
ParseRefreshMsAnyU64(a) ==
    LET text == IF a.refresh_ms.given THEN a.refresh_ms.value ELSE DefaultRefreshMs
    IN  IF text >= 0 THEN Ok(text) ELSE Fail

\* value_parser!(u64).range(200..=60000) over the text given, or over
\* default_value("1000") when the option is absent
ParseRefreshMs(a) ==
    LET text == IF a.refresh_ms.given THEN a.refresh_ms.value ELSE DefaultRefreshMs
    IN  IF text >= 0 /\ text \in MinRefreshMs..MaxRefreshMs THEN Ok(text) ELSE Fail

(***************************************************************************)
(* Init: App::new, about to enter App::run                                 *)
(***************************************************************************)
Init ==
    /\ args = ArgsOf(TRUE, MinRefreshMs)
    /\ frame = NoFrame
    /\ thread = "unspawned"
    /\ channel = NoChannel
    /\ current_tab \in {HomeTab(h) : h \in HomeViews}
    /\ data = <<>>
    /\ dashboard = DashboardDefault
    /\ should_quit = FALSE
    /\ selected_row = 0
    /\ refresh_ms = MinRefreshMs
    /\ elapsed = 0
    /\ terminal = TerminalDefault
    /\ pc = "enable_raw"
    /\ result = Running
    /\ event = "none"
    /\ refresh_result = "none"
    /\ pushes = 0

app_vars == <<current_tab, data, dashboard, should_quit, selected_row, refresh_ms,
              elapsed, pushes>>

\* an early return of App::run through `?`
ReturnErr ==
    /\ pc' = "done"
    /\ result' = ReturnedErr(pc)

ResultName(ok) == IF ok THEN "Ok" ELSE "Err"

\* the count of successful Activity refreshes, after one more refresh
Pushed(tab, ok) == IF ok /\ tab = "Activity" THEN pushes + 1 ELSE pushes

(***************************************************************************)
(* App::run, step by step                                                  *)
(***************************************************************************)
\* enable_raw_mode()?
EnableRawMode ==
    /\ pc = "enable_raw"
    /\ \E ok \in BOOLEAN :
          IF ok
          THEN /\ terminal' = [terminal EXCEPT !.raw_mode = TRUE]
               /\ pc' = "enter_alt"
               /\ UNCHANGED result
          ELSE /\ ReturnErr
               /\ UNCHANGED terminal
    /\ UNCHANGED <<app_vars, event, refresh_result>>
    /\ UNCHANGED <<args, frame, thread, channel>>

\* execute!(stdout, EnterAlternateScreen, EnableMouseCapture)?: `done` of the
\* two commands were written before the error, if any
EnterAlternateScreen ==
    /\ pc = "enter_alt"
    /\ \E done \in 0..2 :
          /\ terminal' = [terminal EXCEPT !.alt_screen = (done >= 1),
                                          !.mouse_capture = (done >= 2)]
          /\ IF done = 2
             THEN pc' = "new_terminal" /\ UNCHANGED result
             ELSE ReturnErr
    /\ UNCHANGED <<app_vars, event, refresh_result>>
    /\ UNCHANGED <<args, frame, thread, channel>>

\* Terminal::new(backend)?; terminal.clear()?
NewTerminal ==
    /\ pc = "new_terminal"
    /\ \E ok \in BOOLEAN :
          IF ok THEN pc' = "initial_refresh" /\ UNCHANGED result ELSE ReturnErr
    /\ UNCHANGED <<app_vars, terminal, event, refresh_result>>
    /\ UNCHANGED <<args, frame, thread, channel>>

\* self.refresh_data()? before the loop
InitialRefresh ==
    /\ pc = "initial_refresh"
    /\ \E db \in Databases(current_tab) :
          LET r == refresh_data(current_tab, dashboard, data, db) IN
          /\ dashboard' = r.dashboard
          /\ data' = r.data
          /\ pushes' = Pushed(current_tab, r.ok)
          /\ refresh_result' = ResultName(r.ok)
          /\ IF r.ok THEN pc' = "while" /\ UNCHANGED result ELSE ReturnErr
    /\ UNCHANGED <<current_tab, should_quit, selected_row, refresh_ms, elapsed,
                   terminal, event>>
    /\ UNCHANGED <<args, frame, thread, channel>>

\* LoopCheck of a loop that tests the flag after the body only (do .. while):
\* here it goes round once more
LoopCheckLate ==
    /\ pc = "while"
    /\ pc' = "draw"
    /\ refresh_result' = "none"
    /\ UNCHANGED <<app_vars, terminal, result, event>>
    /\ UNCHANGED <<args, frame, thread, channel>>

\* a loop whose body starts with the poll
LoopCheckPollFirst ==
    /\ pc = "while"
    /\ pc' = IF should_quit THEN "disable_raw" ELSE "poll"
    /\ refresh_result' = "none"
    /\ UNCHANGED <<app_vars, terminal, result, event>>
    /\ UNCHANGED <<args, frame, thread, channel>>

\* while !self.should_quit
LoopCheck ==
    /\ pc = "while"
    /\ pc' = IF should_quit THEN "disable_raw" ELSE "draw"
    /\ refresh_result' = "none"
    /\ UNCHANGED <<app_vars, terminal, result, event>>
    /\ UNCHANGED <<args, frame, thread, channel>>

\* a draw that pulls the selection back to the last row of what it draws
DrawClamping ==
    /\ pc = "draw"
    /\ \E ok \in BOOLEAN :
          IF ok
          THEN /\ terminal' = [terminal EXCEPT !.cursor_hidden = TRUE]
               /\ pc' = "poll"
               /\ UNCHANGED result
          ELSE /\ ReturnErr
               /\ UNCHANGED terminal
    /\ selected_row' =
          LET len == ActiveLen(current_tab, dashboard, data)
          IN  IF selected_row >= len THEN Max(len - 1, 0) ELSE selected_row
    /\ UNCHANGED <<current_tab, data, dashboard, should_quit, refresh_ms, elapsed,
                   pushes, event, refresh_result>>
    /\ UNCHANGED <<args, frame, thread, channel>>

\* terminal.draw(|f| crate::tui::ui::draw(f, self))?
Draw ==
    /\ pc = "draw"
    /\ \E ok \in BOOLEAN :
          IF ok
          THEN /\ terminal' = [terminal EXCEPT !.cursor_hidden = TRUE]
               /\ pc' = "poll"
               /\ UNCHANGED result
          ELSE /\ ReturnErr
               /\ UNCHANGED terminal
    /\ UNCHANGED <<app_vars, event, refresh_result>>
    /\ UNCHANGED <<args, frame, thread, channel>>

\* a poll without a timeout, of which an input event is the only way out
PollNoKeyBlocking ==
    /\ pc = "poll"
    /\ FALSE
    /\ UNCHANGED vars

\* no key reaches the match: the poll timed out or failed, or the event read
\* is not a key event
PollNoKey ==
    /\ pc = "poll"
    /\ \E ev \in {"timeout", "poll_err", "non_key"} :
          /\ event' = ev
          /\ \E wait \in PollWait(ev) : elapsed' = elapsed + wait
    /\ pc' = "cadence"
    /\ refresh_result' = "none"
    /\ UNCHANGED <<current_tab, data, dashboard, should_quit, selected_row, refresh_ms,
                   pushes, terminal, result>>
    /\ UNCHANGED <<args, frame, thread, channel>>

\* event::read()? failed
PollReadErr ==
    /\ pc = "poll"
    /\ \E wait \in PollWait("read_err") : elapsed' = elapsed + wait
    /\ event' = "read_err"
    /\ refresh_result' = "none"
    /\ ReturnErr
    /\ UNCHANGED <<current_tab, data, dashboard, should_quit, selected_row, refresh_ms,
                   pushes, terminal>>
    /\ UNCHANGED <<args, frame, thread, channel>>

\* KeyCode::Char('q')
PollQuit ==
    /\ pc = "poll"
    /\ \E wait \in PollWait("q") : elapsed' = elapsed + wait
    /\ event' = "q"
    /\ should_quit' = TRUE
    /\ pc' = "cadence"
    /\ refresh_result' = "none"
    /\ UNCHANGED <<current_tab, data, dashboard, selected_row, refresh_ms, pushes,
                   terminal, result>>
    /\ UNCHANGED <<args, frame, thread, channel>>

\* a tab key whose refresh, when it succeeds, restarts the cadence timer
PollTabResetting ==
    /\ pc = "poll"
    /\ \E k \in TabKeys :
          /\ event' = k
          /\ \E db \in Databases(TabOfKey(k)) :
                LET s == set_tab(TabOfKey(k), selected_row, dashboard, data, db) IN
                /\ current_tab' = s.current_tab
                /\ selected_row' = s.selected_row
                /\ dashboard' = s.dashboard
                /\ data' = s.data
                /\ pushes' = Pushed(s.current_tab, s.ok)
                /\ refresh_result' = ResultName(s.ok)
                /\ \E wait \in PollWait(k) :
                      elapsed' = IF s.ok THEN 0 ELSE elapsed + wait
    /\ pc' = "cadence"
    /\ UNCHANGED <<should_quit, refresh_ms, terminal, result>>
    /\ UNCHANGED <<args, frame, thread, channel>>

\* KeyCode::Char('1') .. KeyCode::Char('5')
PollTab ==
    /\ pc = "poll"
    /\ \E k \in TabKeys :
          /\ event' = k
          /\ \E wait \in PollWait(k) : elapsed' = elapsed + wait
          /\ \E db \in Databases(TabOfKey(k)) :
                LET s == set_tab(TabOfKey(k), selected_row, dashboard, data, db) IN
                /\ current_tab' = s.current_tab
                /\ selected_row' = s.selected_row
                /\ dashboard' = s.dashboard
                /\ data' = s.data
                /\ pushes' = Pushed(s.current_tab, s.ok)
                /\ refresh_result' = ResultName(s.ok)
    /\ pc' = "cadence"
    /\ UNCHANGED <<should_quit, refresh_ms, terminal, result>>
    /\ UNCHANGED <<args, frame, thread, channel>>

\* KeyCode::Down, KeyCode::Up and every other key
PollMove ==
    /\ pc = "poll"
    /\ \E k \in {"Down", "Up", "other"} :
          /\ event' = k
          /\ \E wait \in PollWait(k) : elapsed' = elapsed + wait
          /\ selected_row' =
                CASE k = "Down"  -> KeyDown(current_tab, dashboard, data, selected_row)
                  [] k = "Up"    -> KeyUp(selected_row)
                  [] k = "other" -> selected_row
    /\ pc' = "cadence"
    /\ refresh_result' = "none"
    /\ UNCHANGED <<current_tab, data, dashboard, should_quit, refresh_ms, pushes,
                   terminal, result>>
    /\ UNCHANGED <<args, frame, thread, channel>>

\* a cadence test that lets the interval itself pass without a refresh
RefreshDueStrict(el, ms) == el > ms

\* self.last_refresh.elapsed() >= Duration::from_millis(self.refresh_ms)
RefreshDue(el, ms) == el >= ms

\* if <refresh due> { self.refresh_data()?; self.last_refresh = Instant::now(); }
Cadence ==
    /\ pc = "cadence"
    /\ IF RefreshDue(elapsed, refresh_ms)
       THEN \E db \in Databases(current_tab) :
               LET r == refresh_data(current_tab, dashboard, data, db) IN
               /\ dashboard' = r.dashboard
               /\ data' = r.data
               /\ pushes' = Pushed(current_tab, r.ok)
               /\ refresh_result' = ResultName(r.ok)
               /\ IF r.ok
                  THEN /\ elapsed' = 0
                       /\ pc' = "while"
                       /\ UNCHANGED result
                  ELSE /\ ReturnErr
                       /\ UNCHANGED elapsed
       ELSE /\ pc' = "while"
            /\ refresh_result' = "none"
            /\ UNCHANGED <<dashboard, data, pushes, elapsed, result>>
    /\ event' = "none"
    /\ UNCHANGED <<current_tab, should_quit, selected_row, refresh_ms, terminal>>
    /\ UNCHANGED <<args, frame, thread, channel>>

\* disable_raw_mode()?
DisableRawMode ==
    /\ pc = "disable_raw"
    /\ \E ok \in BOOLEAN :
          IF ok
          THEN /\ terminal' = [terminal EXCEPT !.raw_mode = FALSE]
               /\ pc' = "leave_alt"
               /\ UNCHANGED result
          ELSE /\ ReturnErr
               /\ UNCHANGED terminal
    /\ UNCHANGED <<app_vars, event, refresh_result>>
    /\ UNCHANGED <<args, frame, thread, channel>>

\* execute!(terminal.backend_mut(), LeaveAlternateScreen, DisableMouseCapture)?
LeaveAlternateScreen ==
    /\ pc = "leave_alt"
    /\ \E done \in 0..2 :
          /\ terminal' = [terminal EXCEPT
                             !.alt_screen = IF done >= 1 THEN FALSE ELSE @,
                             !.mouse_capture = IF done >= 2 THEN FALSE ELSE @]
          /\ IF done = 2
             THEN pc' = "show_cursor" /\ UNCHANGED result
             ELSE ReturnErr
    /\ UNCHANGED <<app_vars, event, refresh_result>>
    /\ UNCHANGED <<args, frame, thread, channel>>

\* terminal.show_cursor()?; Ok(())
ShowCursor ==
    /\ pc = "show_cursor"
    /\ \E ok \in BOOLEAN :
          IF ok
          THEN /\ terminal' = [terminal EXCEPT !.cursor_hidden = FALSE]
               /\ pc' = "done"
               /\ result' = ReturnedOk
          ELSE /\ ReturnErr
               /\ UNCHANGED terminal
    /\ UNCHANGED <<app_vars, event, refresh_result>>
    /\ UNCHANGED <<args, frame, thread, channel>>

Next ==
    \/ EnableRawMode
    \/ EnterAlternateScreen
    \/ NewTerminal
    \/ InitialRefresh
    \/ LoopCheck
    \/ Draw
    \/ PollNoKey
    \/ PollReadErr
    \/ PollQuit
    \/ PollTab
    \/ PollMove
    \/ Cadence
    \/ DisableRawMode
    \/ LeaveAlternateScreen
    \/ ShowCursor

Spec == Init /\ [][Next]_vars


(***************************************************************************)
(* SpecHist: a session on the Activity tab whose refreshes meet a database *)
(* that answers the n-th successful one with n active connections, so that *)
(* every sample pushed differs from every other.                           *)
(***************************************************************************)
ConnNo(n) == <<<<"active", n>>, <<"idle", 1>>>>

SampleNo(n) == <<n, 1, n + 1>>

HistDbs ==
    {DbDown,
     [DbDown EXCEPT !.connect = TRUE, !.conn = Ok(ConnNo(pushes + 1)),
                    !.active = Ok(Rows("Activity", 0)),
                    !.perf = Ok(CHOOSE p \in PerfChoices : TRUE)]}

InitHist ==
    /\ args = ArgsOf(TRUE, MinRefreshMs)
    /\ frame = NoFrame
    /\ thread = "unspawned"
    /\ channel = NoChannel
    /\ current_tab = "Activity"
    /\ data = <<>>
    /\ dashboard = DashboardDefault
    /\ should_quit = FALSE
    /\ selected_row = 0
    /\ refresh_ms = MinRefreshMs
    /\ elapsed = 0
    /\ terminal = TerminalDefault
    /\ pc = "refresh"
    /\ result = Running
    /\ event = "none"
    /\ refresh_result = "none"
    /\ pushes = 0

\* one call of refresh_data
HistRefresh ==
    /\ pc = "refresh"
    /\ pushes < MaxHistPushes
    /\ \E db \in HistDbs :
          LET r == refresh_data(current_tab, dashboard, data, db) IN
          /\ dashboard' = r.dashboard
          /\ data' = r.data
          /\ pushes' = Pushed(current_tab, r.ok)
          /\ refresh_result' = ResultName(r.ok)
    /\ UNCHANGED <<current_tab, should_quit, selected_row, refresh_ms, elapsed,
                   terminal, pc, result, event>>
    /\ UNCHANGED <<args, frame, thread, channel>>

NextHist == HistRefresh

SpecHist == InitHist /\ [][NextHist]_vars

(***************************************************************************)
(* SpecChart: a session on the Activity tab whose dashboard is drawn.  The *)
(* history it starts from is any short sequence of a few samples, any      *)
(* single sample of up to MaxConn connections, or a full-grown history of  *)
(* any length up to CONN_HISTORY_SIZE; the chart's area is a few cells     *)
(* either side of the 10 cells draw_conn_chart takes off.                  *)
(***************************************************************************)
ChartSamples == {<<1, 0, 1>>, <<3, 1, 4>>, <<5, 2, 7>>}

SeqsUpTo(S, n) == UNION {[1..k -> S] : k \in 0..n}

\* the history after n refreshes of the database of SpecHist
Ramp(n) == [k \in 1..n |-> SampleNo(k)]

ChartHistories ==
    SeqsUpTo(ChartSamples, MaxChartLen)
    \cup {<<(<<0, i, t>>)>> : i \in 0..MaxConn, t \in 0..MaxConn}
    \cup {Ramp(n) : n \in 0..CONN_HISTORY_SIZE}

AreaWidths == 8..(10 + MaxChartWidth)

ChartDbs ==
    {DbDown}
    \cup {[DbDown EXCEPT !.connect = TRUE, !.conn = Ok(c), !.active = Ok(<<>>),
                         !.perf = Ok(p)] : c \in ConnChoices, p \in PerfChoices}

InitChart ==
    /\ args = ArgsOf(TRUE, MinRefreshMs)
    /\ frame \in {[NoFrame EXCEPT !.width = w] : w \in AreaWidths}
    /\ thread = "unspawned"
    /\ channel = NoChannel
    /\ current_tab = "Activity"
    /\ data = <<>>
    /\ dashboard \in {[DashboardDefault EXCEPT !.conn_history = h] :
                         h \in {g \in ChartHistories :
                                   \A k \in 1..Len(g) : g[k][2] <= g[k][3]}}
    /\ should_quit = FALSE
    /\ selected_row = 0
    /\ refresh_ms = MinRefreshMs
    /\ elapsed = 0
    /\ terminal = TerminalDefault
    /\ pc = "chart"
    /\ result = Running
    /\ event = "none"
    /\ refresh_result = "none"
    /\ pushes = 0

\* one call of refresh_data, MaxHistory times at most
ChartRefresh ==
    /\ pc = "chart"
    /\ pushes < MaxHistory
    /\ \E db \in ChartDbs :
          LET r == refresh_data(current_tab, dashboard, data, db) IN
          /\ dashboard' = r.dashboard
          /\ data' = r.data
          /\ pushes' = Pushed(current_tab, r.ok)
          /\ refresh_result' = ResultName(r.ok)
    /\ UNCHANGED <<current_tab, should_quit, selected_row, refresh_ms, elapsed,
                   terminal, pc, result, event, args, frame, thread, channel>>

\* draw -> draw_dashboard -> draw_conn_chart
ChartDraw ==
    /\ pc = "chart"
    /\ current_tab = "Activity"
    /\ frame' = draw_conn_chart(dashboard.conn_history, frame.width)
    /\ UNCHANGED <<app_vars, terminal, pc, result, event, refresh_result, args,
                   thread, channel>>

NextChart == ChartRefresh \/ ChartDraw

SpecChart == InitChart /\ [][NextChart]_vars

(***************************************************************************)
(* SpecCli: the process from its command line on: cli::start::run parses   *)
(* the arguments, builds the App and calls App::run, followed here up to   *)
(* the first pass of the loop's test.  Before App::new there is no session:*)
(* current_tab is "none" and refresh_ms is 0.                              *)
(***************************************************************************)
CliValues ==
    {-1, 0, 100, DefaultRefreshMs}
    \cup ((MinRefreshMs - MaxCliSpread)..(MinRefreshMs + MaxCliSpread))
    \cup ((MaxRefreshMs - MaxCliSpread)..(MaxRefreshMs + MaxCliSpread))

CliArgs == {ArgsOf(FALSE, 0)} \cup {ArgsOf(TRUE, v) : v \in CliValues}

\* get_matches() printed the error and ended the process
ConfigError == [status |-> "exit", at |-> "cli"]

InitCli ==
    /\ args \in CliArgs
    /\ frame = NoFrame
    /\ thread = "unspawned"
    /\ channel = NoChannel
    /\ current_tab = "none"
    /\ data = <<>>
    /\ dashboard = DashboardDefault
    /\ should_quit = FALSE
    /\ selected_row = 0
    /\ refresh_ms = 0
    /\ elapsed = 0
    /\ terminal = TerminalDefault
    /\ pc = "cli"
    /\ result = Running
    /\ event = "none"
    /\ refresh_result = "none"
    /\ pushes = 0

\* commands::new().get_matches(); dispatch::handler(&matches); App::new(..)
Start ==
    /\ pc = "cli"
    /\ LET r == ParseRefreshMs(args) IN
       IF r.ok
       THEN /\ \E h \in HomeViews : current_tab' = HomeTab(h)
            /\ refresh_ms' = r.val
            /\ pc' = "enable_raw"
            /\ UNCHANGED result
       ELSE /\ pc' = "done"
            /\ result' = ConfigError
            /\ UNCHANGED <<current_tab, refresh_ms>>
    /\ UNCHANGED <<data, dashboard, should_quit, selected_row, elapsed, pushes,
                   terminal, event, refresh_result, args, frame, thread, channel>>

NextCli ==
    \/ Start
    \/ EnableRawMode
    \/ EnterAlternateScreen
    \/ NewTerminal
    \/ InitialRefresh
    \/ LoopCheck

SpecCli == InitCli /\ [][NextCli]_vars

(***************************************************************************)
(* SpecThread: App::run from the creation of the channel on, together with *)
(* the polling thread it spawns, in every interleaving of the two.  The    *)
(* session stays on its home tab (the user presses no tab key).  The       *)
(* thread is followed for its first MaxMsgs sends into a live channel.     *)
(***************************************************************************)
InitThread ==
    /\ args = ArgsOf(TRUE, MinRefreshMs)
    /\ frame = NoFrame
    /\ thread = "unspawned"
    /\ channel = NoChannel
    /\ current_tab \in {HomeTab(h) : h \in HomeViews}
    /\ data = <<>>
    /\ dashboard = DashboardDefault
    /\ should_quit = FALSE
    /\ selected_row = 0
    /\ refresh_ms = MinRefreshMs
    /\ elapsed = 0
    /\ terminal = [TerminalDefault EXCEPT !.raw_mode = TRUE, !.alt_screen = TRUE,
                                          !.mouse_capture = TRUE]
    /\ pc = "spawn"
    /\ result = Running
    /\ event = "none"
    /\ refresh_result = "none"
    /\ pushes = 0

\* tx.send(msg), its Result dropped: the message is queued while the receiver
\* lives and lost otherwise
Send(ch, msg) == IF ch.rx THEN [ch EXCEPT !.queue = Append(@, msg)] ELSE ch

\* let (tx, _rx) = mpsc::channel(); thread::spawn(move || ..)
SpawnPoller ==
    /\ pc = "spawn"
    /\ pc' = "initial_refresh"
    /\ channel' = [rx |-> TRUE, queue |-> <<>>]
    /\ thread' = "connect"
    /\ UNCHANGED <<app_vars, terminal, result, event, refresh_result, args, frame>>

\* a thread that ends the session when it cannot connect
PollerConnectQuits ==
    /\ thread = "connect"
    /\ \E ok \in BOOLEAN :
          IF ok
          THEN thread' = "sleep" /\ UNCHANGED <<channel, should_quit>>
          ELSE /\ channel' = Send(channel, "Err")
               /\ thread' = "exited"
               /\ should_quit' = TRUE
    /\ UNCHANGED <<current_tab, data, dashboard, selected_row, refresh_ms, elapsed,
                   pushes, terminal, pc, result, event, refresh_result, args, frame>>

\* the thread's PgClient::new(&dsn): on Err it sends the error and returns
PollerConnect ==
    /\ thread = "connect"
    /\ \E ok \in BOOLEAN :
          IF ok
          THEN thread' = "sleep" /\ UNCHANGED channel
          ELSE channel' = Send(channel, "Err") /\ thread' = "exited"
    /\ UNCHANGED <<app_vars, terminal, pc, result, event, refresh_result, args, frame>>

\* one round of the thread's loop: sleep(100 ms); let _ = tx.send(Ok(Tab::Activity))
PollerSend ==
    /\ thread = "sleep"
    /\ channel.rx => Len(channel.queue) < MaxMsgs
    /\ channel' = Send(channel, "Activity")
    /\ UNCHANGED <<app_vars, terminal, pc, result, event, refresh_result, args, frame,
                   thread>>

\* run() has returned: its local _rx is dropped, and the queue with it
DropReceiver ==
    /\ pc = "done"
    /\ channel.rx
    /\ channel' = NoChannel
    /\ UNCHANGED <<app_vars, terminal, pc, result, event, refresh_result, args, frame,
                   thread>>

NextThread ==
    \/ SpawnPoller
    \/ PollerConnect
    \/ PollerSend
    \/ DropReceiver
    \/ InitialRefresh
    \/ LoopCheck
    \/ Draw
    \/ PollNoKey
    \/ PollReadErr
    \/ PollQuit
    \/ PollMove
    \/ Cadence
    \/ DisableRawMode
    \/ LeaveAlternateScreen
    \/ ShowCursor

SpecThread == InitThread /\ [][NextThread]_vars

(***************************************************************************)
(* SpecLive: App::run with a user who presses nothing, or q: every poll    *)
(* of the loop waits its 50 ms out unless q arrives.  run() is one thread  *)
(* that keeps executing, so each of its steps is taken once it can be;     *)
(* nothing makes the user press q.                                         *)
(***************************************************************************)
\* event::poll(50 ms) with no event pending: Ok(false) after the whole wait
PollTimeout == PollNoKey /\ event' = "timeout"

\* the steps run() takes by itself
LoopStep ==
    \/ EnableRawMode
    \/ EnterAlternateScreen
    \/ NewTerminal
    \/ InitialRefresh
    \/ LoopCheck
    \/ Draw
    \/ PollTimeout
    \/ Cadence
    \/ DisableRawMode
    \/ LeaveAlternateScreen
    \/ ShowCursor

NextLive == LoopStep \/ PollQuit

SpecLive == Init /\ [][NextLive]_vars /\ WF_vars(LoopStep)

(***************************************************************************)
(* SpecF64: draw_conn_chart with the values of its two lines in binary64,  *)
(* over every history of up to MaxF64Len samples and every chart of up to  *)
(* MaxF64Points points.                                                    *)
(***************************************************************************)
F64Samples == {<<0, 3, 3>>, <<2, 1, 3>>, <<1, 4, 5>>, <<7, 0, 7>>}

InitF64 ==
    /\ args = ArgsOf(TRUE, MinRefreshMs)
    /\ frame \in {[NoFrame EXCEPT !.width = w] : w \in 10..(10 + MaxF64Points)}
    /\ thread = "unspawned"
    /\ channel = NoChannel
    /\ current_tab = "Activity"
    /\ data = <<>>
    /\ dashboard \in {[DashboardDefault EXCEPT !.conn_history = h] :
                         h \in SeqsUpTo(F64Samples, MaxF64Len)}
    /\ should_quit = FALSE
    /\ selected_row = 0
    /\ refresh_ms = MinRefreshMs
    /\ elapsed = 0
    /\ terminal = TerminalDefault
    /\ pc = "f64"
    /\ result = Running
    /\ event = "none"
    /\ refresh_result = "none"
    /\ pushes = 0

\* draw -> draw_dashboard -> draw_conn_chart
F64Draw ==
    /\ pc = "f64"
    /\ current_tab = "Activity"
    /\ frame' = draw_conn_chartF64(dashboard.conn_history, frame.width)
    /\ UNCHANGED <<app_vars, terminal, pc, result, event, refresh_result, args,
                   thread, channel>>

NextF64 == F64Draw

SpecF64 == InitF64 /\ [][NextF64]_vars

(***************************************************************************)
(* The claims                                                              *)
(***************************************************************************)
\* the fields of the Dashboard Snapshot (DashboardStats without its history)
Snapshot(d) ==
    <<d.conn_by_state, d.active_queries, d.cache_hit_pct, d.total_commits,
      d.total_rollbacks, d.total_backends, d.max_connections>>

\* the sample a successful Activity refresh derives from a connection list
SampleOf(conn) == <<CountOf(conn, "active"), CountOf(conn, "idle"), SumCounts(conn)>>

\* the datasets a refresh of `tab` that returns Ok can leave in App.data
FetchedFor(tab) ==
    LET outcomes == {refresh_data(tab, DashboardDefault, <<>>, db) : db \in TableDbs(tab)}
    IN  {r.data : r \in {o \in outcomes : o.ok}}

\* C1: in every reachable state the selected row index is in range for the row
\* collection of the current tab: 0 <= index < len when len > 0, index = 0
\* when len = 0.
C1_SelectedRowInRange ==
    LET len == ActiveLen(current_tab, dashboard, data)
    IN  IF len > 0 THEN 0 <= selected_row /\ selected_row < len
        ELSE selected_row = 0

\* C2: a refresh of the Activity tab is atomic: when it fails, every field of
\* the Dashboard Snapshot keeps the value it had before the refresh started.
\* Stated of the failed refreshes after which the loop goes on to render (those
\* of a tab switch), where the mixed snapshot is drawn.
C2_ActivityRefreshAtomic ==
    [][(refresh_result' = "Err" /\ current_tab' = "Activity" /\ pc' # "done")
          => Snapshot(dashboard') = Snapshot(dashboard)]_vars

\* C3: a failed refresh does not terminate the run loop: where refresh_data
\* has just returned an error, App::run has not returned.
C3_FailedRefreshKeepsLoop ==
    refresh_result = "Err" => result = Running

\* C4: on every route by which run() returns from inside the loop or from the
\* initial refresh (quit key, error while drawing, error while reading an
\* event, error from a refresh), the terminal has been restored: raw mode
\* disabled, alternate screen left, cursor shown.
C4_TerminalRestoredOnReturn ==
    (pc = "done" /\ result.at \in {"none", "draw", "poll", "initial_refresh", "cadence"})
        => /\ ~terminal.raw_mode
           /\ ~terminal.alt_screen
           /\ ~terminal.cursor_hidden

\* C5: a tab never displays data fetched for a previously active tab: at every
\* render of a tab other than Activity, the generic table data is empty or a
\* dataset fetched for the current tab.
C5_NoStaleTableData ==
    (pc = "draw" /\ current_tab # "Activity")
        => (data = <<>> \/ data \in FetchedFor(current_tab))

\* C6: a tab-select key for the tab that is already active is a no-op: it
\* leaves the selected row index, the generic table data, the Dashboard
\* Snapshot and the History Buffer unchanged and triggers no refresh.
C6_SameTabKeyIsNoOp ==
    [][(pc = "poll" /\ event' \in TabKeys /\ TabOfKey(event') = current_tab)
          => /\ UNCHANGED <<selected_row, data, dashboard>>
             /\ refresh_result' = "none"]_vars

\* C7: after every push the history holds at most CONN_HISTORY_SIZE samples;
\* it holds all the samples pushed while they are fewer than that, and from
\* then on exactly the CONN_HISTORY_SIZE most recent ones, oldest first.
C7_HistoryBounded ==
    LET h == dashboard.conn_history
        n == Len(h)
    IN  /\ n <= CONN_HISTORY_SIZE
        /\ n = IF pushes < CONN_HISTORY_SIZE THEN pushes ELSE CONN_HISTORY_SIZE
        /\ \A k \in 1..n : h[k] = SampleNo(pushes - n + k)

\* the history is full and its oldest samples have been evicted
C7_Witness ==
    /\ pushes > CONN_HISTORY_SIZE + 1
    /\ Len(dashboard.conn_history) = CONN_HISTORY_SIZE
    /\ dashboard.conn_history[1] = SampleNo(pushes - CONN_HISTORY_SIZE + 1)

\* C8: a failed refresh, on any tab, leaves the History Buffer and the generic
\* table data unchanged.
C8_FailedRefreshKeepsHistoryAndData ==
    [][refresh_result' = "Err"
          => /\ dashboard'.conn_history = dashboard.conn_history
             /\ data' = data]_vars

\* a refresh of the Activity tab has failed after it stored a new connection
\* list, with samples in the history and rows in the table
C8_Witness ==
    /\ refresh_result = "Err"
    /\ current_tab = "Activity"
    /\ data # <<>>
    /\ dashboard.conn_history # <<>>
    /\ SampleOf(dashboard.conn_by_state)
           # dashboard.conn_history[Len(dashboard.conn_history)]

\* C9: switching tabs sets the current tab to the requested tab and resets the
\* selected row index to 0, whether or not the refresh of the switch succeeds.
C9_SwitchResetsSelection ==
    [][(pc = "poll" /\ event' \in TabKeys)
          => /\ current_tab' = TabOfKey(event')
             /\ selected_row' = 0]_vars

\* a tab key has just been handled, its refresh failed, and the table still
\* holds the rows of the tab left, two or more
C9_Witness ==
    /\ pc = "cadence"
    /\ event \in TabKeys
    /\ refresh_result = "Err"
    /\ current_tab = TabOfKey(event)
    /\ selected_row = 0
    /\ Len(data) >= 2

\* how far App::run is on its way out, once the quit flag is set
ExitRank(at) ==
    CASE at = "cadence"     -> 1
      [] at = "while"       -> 2
      [] at = "disable_raw" -> 3
      [] at = "leave_alt"   -> 4
      [] at = "show_cursor" -> 5
      [] at = "done"        -> 6
      [] OTHER              -> 0

\* C10: the quit flag starts false, only the quit key sets it, nothing resets
\* it, and once it is set the loop is left without another draw or poll: every
\* later step of App::run moves it towards its return.
C10_QuitMonotonic ==
    /\ ~should_quit
    /\ [][/\ should_quit => should_quit'
          /\ (~should_quit /\ should_quit') => (pc = "poll" /\ event' = "q")
          /\ should_quit => pc' \notin {"draw", "poll"}
          /\ should_quit => (ExitRank(pc) >= 1 /\ ExitRank(pc') > ExitRank(pc))]_vars

\* App::run has returned Ok(()) after the quit key
C10_Witness ==
    /\ should_quit
    /\ pc = "done"
    /\ result = ReturnedOk

\* C11: the quit key is a terminal transition: from the step that has set the
\* quit flag until the loop is left, no refresh is triggered and the tab, the
\* data, the dashboard, the selection and the refresh timestamp stay as they
\* are.
C11_QuitIsTerminal ==
    [][(should_quit /\ pc \in {"cadence", "while"})
          => /\ refresh_result' = "none"
             /\ UNCHANGED <<current_tab, data, dashboard, selected_row, elapsed>>]_vars

\* C12: the cadence test of a loop iteration triggers a refresh exactly when
\* the time elapsed since the last refresh timestamp is >= the refresh
\* interval, and the refresh resets the timestamp (the loop going on); the
\* timestamp is reset by nothing else and the elapsed time grows only while
\* the loop waits for input, so an automatic refresh comes at least one
\* interval after the one before it.
C12_CadenceRefresh ==
    [][/\ pc = "cadence" => ((refresh_result' # "none") <=> (elapsed >= refresh_ms))
       /\ (pc = "cadence" /\ refresh_result' = "Ok") => elapsed' = 0
       /\ elapsed' # elapsed
             => \/ pc = "poll" /\ elapsed' > elapsed
                \/ pc = "cadence" /\ refresh_result' = "Ok" /\ elapsed >= refresh_ms]_vars

\* an automatic refresh has just succeeded in an iteration that drew a frame
C12_Witness ==
    /\ pc = "while"
    /\ refresh_result = "Ok"
    /\ terminal.cursor_hidden
    /\ elapsed = 0

\* C13: a Down key moves the selection one row down iff index + 1 < len of the
\* active row collection (the active queries on Activity, the table's rows on
\* the other tabs), an Up key moves it one row up iff index > 0, any other
\* key moves nothing; none of the three changes the tab, the data or the
\* dashboard, sets the quit flag or calls a refresh.
C13_MoveKeys ==
    [][(pc = "poll" /\ event' \in {"Down", "Up", "other"})
          => LET len == IF current_tab = "Activity"
                        THEN Len(dashboard.active_queries) ELSE Len(data)
             IN  /\ event' = "Down" =>
                       selected_row' = IF selected_row + 1 < len
                                       THEN selected_row + 1 ELSE selected_row
                 /\ event' = "Up" =>
                       selected_row' = IF selected_row > 0
                                       THEN selected_row - 1 ELSE selected_row
                 /\ event' = "other" => selected_row' = selected_row
                 /\ UNCHANGED <<current_tab, data, dashboard, should_quit>>
                 /\ refresh_result' = "none"]_vars

\* a Down key has just moved the selection to the second row
C13_Witness ==
    /\ pc = "cadence"
    /\ event = "Down"
    /\ selected_row = 1
    /\ ActiveLen(current_tab, dashboard, data) = 2

\* the number of points draw_conn_chart asks resample for
TargetLen(area_width) == IF area_width > 10 THEN area_width - 10 ELSE 0

\* `out` holds n points whose x-coordinates are 0 .. n-1 in order
PointsOver(out, n) == Len(out) = n /\ \A k \in 1..n : out[k].x = k - 1

\* C14: resample returns exactly n points with x-coordinates 0..n-1 in order
\* whenever n > 0 and the history is not empty, and no point when n = 0 or
\* the history is empty, whatever the length of the history up to capacity.
C14_ResampleLength ==
    [][frame' # frame
          => LET h == dashboard.conn_history
                 n == TargetLen(frame.width)
             IN  \A out \in {frame'.total_data, frame'.idle_data} :
                    /\ (n > 0 /\ Len(h) > 0) => PointsOver(out, n)
                    /\ (n = 0 \/ Len(h) = 0) => Len(out) = 0]_vars

\* a history at capacity has been drawn over the widest chart
C14_Witness ==
    /\ frame.drawn
    /\ pushes = 0
    /\ Len(dashboard.conn_history) = CONN_HISTORY_SIZE
    /\ TargetLen(frame.width) = 5
    /\ Len(frame.total_data) = 5

\* C15: resample over a history of exactly one sample returns n points, all
\* of the sample's extracted value, with x-coordinates 0..n-1, for every
\* n > 0.
C15_SingleSampleFlatLine ==
    [][(frame' # frame /\ Len(dashboard.conn_history) = 1 /\ TargetLen(frame.width) > 0)
          => LET s == dashboard.conn_history[1]
                 n == TargetLen(frame.width)
             IN  /\ PointsOver(frame'.total_data, n)
                 /\ PointsOver(frame'.idle_data, n)
                 /\ \A k \in 1..n :
                       /\ frame'.total_data[k].num = s[3] * frame'.total_data[k].den
                       /\ frame'.idle_data[k].num = s[2] * frame'.idle_data[k].den]_vars

\* the single sample (0, 17, 21) has been drawn as two flat lines of 3 points
C15_Witness ==
    /\ frame.drawn
    /\ pushes = 0
    /\ dashboard.conn_history = <<(<<0, 17, 21>>)>>
    /\ Len(frame.total_data) = 3
    /\ \A k \in 1..3 : frame.total_data[k].num = 21 * frame.total_data[k].den
    /\ \A k \in 1..3 : frame.idle_data[k].num = 17 * frame.idle_data[k].den

\* floor(pos) for pos = pos_num / den, as the integer it lies at or above
FloorOf(pos_num, den, most) ==
    CHOOSE f \in 0..most : f * den <= pos_num /\ pos_num < (f + 1) * den

\* point i (counted from 0) of `out` is the interpolation of the claim over
\* history h and target_len n: with t = i / (n - 1) (0 when n = 1),
\* pos = t * (len - 1), lo = min(floor(pos), len - 2), hi = lo + 1 and
\* frac = pos - lo, its value is h[lo] * (1 - frac) + h[hi] * frac
Interpolated(out, h, n, field_no, i) ==
    LET d == IF n = 1 THEN 1 ELSE n - 1
        pos_num == i * (Len(h) - 1)
        lo == Min(FloorOf(pos_num, d, Len(h) - 1), Len(h) - 2)
        hi == lo + 1
        frac_num == pos_num - lo * d
        a == h[lo + 1][field_no]
        b == h[hi + 1][field_no]
    IN  out[i + 1].num * d = (a * (d - frac_num) + b * frac_num) * out[i + 1].den

\* C16: over a history of two or more samples, point i of resample is the
\* linear interpolation extract(history[lo]) * (1 - frac) +
\* extract(history[hi]) * frac with t = i / (target_len - 1) (0 if target_len
\* is 1), pos = t * (len - 1), lo = min(floor(pos), len - 2), hi = lo + 1,
\* frac = pos - lo; the history [(1,0,1), (3,1,4), (5,2,7)] resampled to 5
\* points of its totals yields 1, 2.5, 4, 5.5, 7.
C16_LinearInterpolation ==
    [][(frame' # frame /\ Len(dashboard.conn_history) >= 2)
          => LET h == dashboard.conn_history
                 n == TargetLen(frame.width)
             IN  /\ \A i \in 0..(n - 1) :
                       /\ Interpolated(frame'.total_data, h, n, 3, i)
                       /\ Interpolated(frame'.idle_data, h, n, 2, i)
                 /\ (h = <<(<<1, 0, 1>>), (<<3, 1, 4>>), (<<5, 2, 7>>)>> /\ n = 5)
                       => \A k \in 1..5 :
                             2 * frame'.total_data[k].num
                                = <<2, 5, 8, 11, 14>>[k] * frame'.total_data[k].den]_vars

\* the history of the example has been drawn over 5 points: point 1 is half
\* way between the totals 1 and 4, point 3 half way between 4 and 7
C16_Witness ==
    /\ frame.drawn
    /\ pushes = 0
    /\ dashboard.conn_history = <<(<<1, 0, 1>>), (<<3, 1, 4>>), (<<5, 2, 7>>)>>
    /\ Len(frame.total_data) = 5
    /\ 2 * frame.total_data[2].num = 5 * frame.total_data[2].den
    /\ 2 * frame.total_data[4].num = 11 * frame.total_data[4].den

\* the latest sample of the history, (0, 0, 0) when there is none
Latest(h) == IF Len(h) > 0 THEN h[Len(h)] ELSE <<0, 0, 0>>

\* C17: the idle severity drawn is the tier of the ratio idle / total * 100 of
\* the latest history sample (0 when total = 0): high (red) when the ratio is
\* > 80, medium (yellow) when it is > 50 and not high, low (green) otherwise,
\* for every idle <= total, ratios strictly between 80 and 81 included.
C17_IdleTierByRatio ==
    [][frame' # frame
          => LET idle == Latest(dashboard.conn_history)[2]
                 total == Latest(dashboard.conn_history)[3]
             IN  frame'.idle_color =
                    IF total > 0 /\ idle * 100 > 80 * total THEN "Red"
                    ELSE IF total > 0 /\ idle * 100 > 50 * total THEN "Yellow"
                    ELSE "Green"]_vars

\* C18 as claimed: a refresh that succeeds on the connection list
\* [("active", 5), ("idle", 20)] pushes the sample (5, 20, 25), whose idle
\* percentage is 80 and is drawn in the high tier (red).
C18_EightyIsHigh ==
    [][/\ (refresh_result' = "Ok" /\ pushes' # pushes
              /\ dashboard'.conn_by_state = <<(<<"active", 5>>), (<<"idle", 20>>)>>)
             => Latest(dashboard'.conn_history) = <<5, 20, 25>>
       /\ (frame' # frame /\ Latest(dashboard.conn_history) = <<5, 20, 25>>)
             => frame'.idle_pct = 80 /\ frame'.idle_color = "Red"]_vars

\* C18, amended: a refresh that succeeds on the connection list
\* [("active", 5), ("idle", 20)] pushes the sample (5, 20, 25), whose idle
\* percentage is 80 and is drawn in the medium tier (yellow): 80 is not
\* greater than 80.
C18_EightyIsMedium ==
    [][/\ (refresh_result' = "Ok" /\ pushes' # pushes
              /\ dashboard'.conn_by_state = <<(<<"active", 5>>), (<<"idle", 20>>)>>)
             => Latest(dashboard'.conn_history) = <<5, 20, 25>>
       /\ (frame' # frame /\ Latest(dashboard.conn_history) = <<5, 20, 25>>)
             => frame'.idle_pct = 80 /\ frame'.idle_color = "Yellow"]_vars

\* the sample (5, 20, 25) has been pushed by a refresh and drawn
C18_Witness ==
    /\ refresh_result = "Ok"
    /\ pushes = 1
    /\ dashboard.conn_by_state = <<(<<"active", 5>>), (<<"idle", 20>>)>>
    /\ Latest(dashboard.conn_history) = <<5, 20, 25>>
    /\ frame.drawn
    /\ frame.idle_now = 20
    /\ frame.total_now = 25
    /\ frame.idle_pct = 80
    /\ frame.idle_color = "Yellow"

\* the databases that answer but lack the optional feature of `tab`: the view
\* pg_stat_io or the extension pg_stat_statements is missing, or the library
\* of the extension is not loaded
Unavailable(tab) ==
    {db \in TableDbs(tab) :
        /\ db.connect
        /\ \/ db.feature = "missing"
           \/ tab = "Statements" /\ db.feature = "present" /\ db.query = "not_loaded"}

Sentinels == {IoUnavailable, StatementsNotInstalled, StatementsNotLoaded}

\* C19: when the optional feature of the IO or Statements tab is unavailable,
\* the tab's refresh succeeds and the table data becomes exactly one row of
\* exactly one column; the step that stores such a dataset returns no error
\* from the run loop and leaves a selection at index 0 there, and so does
\* every later key over that dataset.
C19_SentinelIsData ==
    /\ [](\A tab \in {"IO", "Statements"} :
             /\ Unavailable(tab) # {}
             /\ \A db \in Unavailable(tab) :
                   LET r == refresh_data(tab, dashboard, data, db)
                   IN  /\ r.ok
                       /\ r.data \in Sentinels
                       /\ Len(r.data) = 1
                       /\ Len(r.data[1]) = 1)
    /\ [][
       /\ (refresh_result' # "none" /\ data' \in Sentinels /\ data' # data)
             => /\ refresh_result' = "Ok"
                /\ pc' # "done" /\ result' = Running
                /\ selected_row = 0 => selected_row' = 0
       /\ (pc = "poll" /\ data \in Sentinels /\ current_tab \in {"IO", "Statements"}
              /\ selected_row = 0 /\ current_tab' = current_tab)
             => selected_row' = 0]_vars

\* the IO tab shows the sentinel of the missing view and a Down key has just
\* left the selection on its only row
C19_Witness ==
    /\ current_tab = "IO"
    /\ data = IoUnavailable
    /\ pc = "cadence"
    /\ event = "Down"
    /\ selected_row = 0
    /\ result = Running

\* C20: App::run is never under way with a refresh interval outside
\* [200, 60000] ms: the interval of a session is the value given, or 1000
\* when none is given, and a value outside the range ends the process at the
\* command line, before there is a session or a change of the terminal.
C20_RefreshIntervalInRange ==
    /\ (pc # "cli" /\ result # ConfigError)
          => /\ refresh_ms \in 200..60000
             /\ refresh_ms = IF args.refresh_ms.given
                              THEN args.refresh_ms.value ELSE 1000
    /\ (pc # "cli" /\ args.refresh_ms.given /\ args.refresh_ms.value \notin 200..60000)
          => /\ result = ConfigError
             /\ pc = "done"
             /\ current_tab = "none"
             /\ refresh_ms = 0
             /\ terminal = TerminalDefault
             /\ refresh_result = "none"

\* --refresh-ms 100 has been rejected
C20_Witness ==
    /\ args = ArgsOf(TRUE, 100)
    /\ pc = "done"
    /\ result = ConfigError

\* C21: rendering a frame never mutates session state: across every draw step
\* the current tab, the selected row, the table data, the dashboard (snapshot
\* and history), the quit flag and the last refresh timestamp are unchanged.
C21_RenderKeepsState ==
    [][pc = "draw"
          => UNCHANGED <<current_tab, selected_row, data, dashboard, should_quit,
                         elapsed>>]_vars

\* a table of two rows has just been drawn with its second row selected
C21_Witness ==
    /\ pc = "poll"
    /\ terminal.cursor_hidden
    /\ current_tab # "Activity"
    /\ Len(data) = 2
    /\ selected_row = 1

\* the fields of the session a frame shows or a refresh writes
SessionState == <<current_tab, selected_row, data, dashboard, should_quit, elapsed>>

C23_OnlyLoopWritesSession ==
    [][/\ (\/ thread # "unspawned" /\ thread' # thread
           \/ channel.rx /\ channel'.rx /\ channel'.queue # channel.queue)
             => UNCHANGED <<SessionState, refresh_ms, pc, result, terminal,
                            refresh_result, event>>
       /\ (channel.rx /\ channel'.rx)
             => /\ Len(channel'.queue) >= Len(channel.queue)
                /\ SubSeq(channel'.queue, 1, Len(channel.queue)) = channel.queue]_vars

\* the thread could not connect and has sent its error; the loop, which has
\* refreshed and drawn, is polling for input
C23_Witness ==
    /\ thread = "exited"
    /\ channel.rx
    /\ channel.queue = <<"Err">>
    /\ pc = "poll"
    /\ terminal.cursor_hidden
    /\ result = Running
    /\ ~should_quit

\* C29: while run() is executing, the messages the polling thread has sent
\* and the loop has not received stay bounded: their number stays below the
\* number of sends followed.
C29_ChannelBounded ==
    (channel.rx /\ pc # "done") => Len(channel.queue) < MaxMsgs

\* `n` is the count the list pairs with exactly `label`, 0 when no entry
\* carries that label
IsCountOf(n, conn, label) ==
    /\ \A i \in 1..Len(conn) : conn[i][1] = label => n = conn[i][2]
    /\ (\A i \in 1..Len(conn) : conn[i][1] # label) => n = 0

\* C24: a successful Activity refresh appends exactly one sample to the
\* history, (active_count, idle_count, total_count): the count the freshly
\* fetched connection list pairs with "active" (0 if absent), the count it
\* pairs with exactly "idle" (0 if absent; "idle in transaction" does not
\* count) and the sum of all its counts.  A refresh that fails, or one of
\* another tab, appends none.
C24_SampleAppended ==
    [][/\ (refresh_result' = "Ok" /\ current_tab' = "Activity")
             => LET conn == dashboard'.conn_by_state
                    h == dashboard.conn_history
                    h2 == dashboard'.conn_history
                IN  /\ Len(h) < CONN_HISTORY_SIZE
                    /\ Len(h2) = Len(h) + 1
                    /\ SubSeq(h2, 1, Len(h)) = h
                    /\ IsCountOf(h2[Len(h2)][1], conn, "active")
                    /\ IsCountOf(h2[Len(h2)][2], conn, "idle")
                    /\ h2[Len(h2)][3] = SumCounts(conn)
       /\ ~(refresh_result' = "Ok" /\ current_tab' = "Activity")
             => dashboard'.conn_history = dashboard.conn_history]_vars

\* a refresh has stored one connection "idle in transaction" and two "idle"
\* and appended the sample (0, 2, 3)
C24_Witness ==
    /\ refresh_result = "Ok"
    /\ current_tab = "Activity"
    /\ dashboard.conn_by_state = <<(<<"idle in transaction", 1>>), (<<"idle", 2>>)>>
    /\ dashboard.conn_history = <<(<<0, 2, 3>>)>>

\* C25: a refresh made while Database, Locks, IO or Statements is the current
\* tab leaves the dashboard (snapshot and history) unchanged and, when it
\* succeeds, replaces the table data by the one dataset it fetched for that
\* tab, whatever rows were there before; the dashboard changes in no step but
\* a refresh made with Activity as the current tab.
C25_TableRefresh ==
    /\ [](refresh_result = "Ok" /\ current_tab # "Activity"
             => data \in FetchedFor(current_tab))
    /\ [][/\ ((refresh_result' # "none" /\ current_tab' # "Activity")
                  => dashboard' = dashboard)
           /\ (dashboard' # dashboard
                  => refresh_result' # "none" /\ current_tab' = "Activity")]_vars

\* a session that holds a history sample has switched to the Database tab,
\* whose refresh has fetched one row
C25_Witness ==
    /\ refresh_result = "Ok"
    /\ current_tab = "Database"
    /\ data = Rows("Database", 1)
    /\ dashboard.conn_history # <<>>
    /\ pc = "cadence"

\* an automatic refresh has just been made in an iteration of the loop
AutoRefreshed == pc = "while" /\ refresh_result = "Ok" /\ terminal.cursor_hidden

\* C26: with no input event, the run loop never blocks: from every poll of
\* the loop on, an automatic refresh eventually occurs, unless the quit key
\* is pressed or run() returns first (the poll returns after its bounded wait
\* and the cadence check is reached in every iteration); and once the quit
\* key has been pressed, run() eventually returns.
C26_LoopNeverBlocks ==
    /\ (pc = "poll") ~> (AutoRefreshed \/ should_quit \/ pc = "done")
    /\ should_quit ~> (pc = "done")

\* with no key pressed, an automatic refresh of the Statements tab has
\* fetched two rows
C26_Witness ==
    /\ AutoRefreshed
    /\ ~should_quit
    /\ event = "none"
    /\ current_tab = "Statements"
    /\ Len(data) = 2

\* C27: the refresh of a tab switch is made whatever the cadence timer reads
\* and leaves the last refresh timestamp as it is (the time elapsed since it
\* is not set back); so when the interval has run out by the time of the
\* switch, the automatic refresh follows in the same iteration, no time
\* after the refresh of the switch.
C27_SwitchBypassesCadence ==
    [][/\ (pc = "poll" /\ event' \in TabKeys)
             => /\ refresh_result' # "none"
                /\ elapsed' \in {elapsed, elapsed + PollMs}
       /\ (pc = "cadence" /\ event \in TabKeys /\ elapsed >= refresh_ms)
             => /\ refresh_result' # "none"
                /\ refresh_result' = "Ok" => elapsed' = 0]_vars

\* a tab switch has refreshed the Locks tab at the moment the interval ran
\* out: the automatic refresh of the same iteration is due at once
C27_Witness ==
    /\ pc = "cadence"
    /\ event \in TabKeys
    /\ refresh_result = "Ok"
    /\ elapsed = refresh_ms
    /\ current_tab = "Locks"
    /\ Len(data) = 2

\* the extracted values of a history
ValuesOf(h, field) == {Extract(field, h[k]) : k \in 1..Len(h)}

LeastOf(h, field) == CHOOSE m \in ValuesOf(h, field) : \A v \in ValuesOf(h, field) : m <= v

GreatestOf(h, field) == CHOOSE m \in ValuesOf(h, field) : \A v \in ValuesOf(h, field) : m >= v

\* the f64 v is the integer k
IsInt(v, k) == DyCmp(v, F64OfInt(k)) = 0

\* the line of a frame that plots `field`
LineOf(fr, field) == IF field = "total" THEN fr.total_data ELSE fr.idle_data

\* the first value of the line is the oldest sample's, the last the newest's
\* (the single value the oldest's when n = 1), and lo + 1 is an index of h
EndsAndIndex(out, h, n, field) ==
    /\ IsInt(out[1].v, Extract(field, h[1]))
    /\ n >= 2 => IsInt(out[n].v, Extract(field, h[Len(h)]))
    /\ \A i \in 0..(n - 1) :
          LoF64(Len(h), n, i) >= 0 /\ LoF64(Len(h), n, i) + 1 <= Len(h) - 1

\* lo * (1 - 2^-52) <= v <= hi * (1 + 2^-52)
WithinRounding(v, lo, hi) ==
    LET scaled == Dy(v.n, v.e + MantissaBits - 1)
        below == DySub(Dy(BigOfNat(lo), MantissaBits - 1), F64OfInt(lo))
        above == DyAdd(Dy(BigOfNat(hi), MantissaBits - 1), F64OfInt(hi))
    IN  DyCmp(scaled, below) >= 0 /\ DyCmp(scaled, above) <= 0

\* C28 as stated: over a history of two or more samples and n >= 2 points
\* the first value is the oldest sample's, the last the newest's, every value
\* lies between the least and the greatest extracted value of the history and
\* lo + 1 is in range; for n = 1 the single value is the oldest sample's.
C28_WithinMinMax ==
    [][(frame' # frame /\ Len(dashboard.conn_history) >= 2 /\ TargetLenOf(frame.width) >= 1)
          => LET h == dashboard.conn_history
                 n == TargetLenOf(frame.width)
             IN  \A field \in {"total", "idle"} :
                    /\ EndsAndIndex(LineOf(frame', field), h, n, field)
                    /\ \A k \in 1..n :
                          /\ DyCmp(LineOf(frame', field)[k].v,
                                   F64OfInt(LeastOf(h, field))) >= 0
                          /\ DyCmp(LineOf(frame', field)[k].v,
                                   F64OfInt(GreatestOf(h, field))) <= 0]_vars

\* C28, amended: the same, with every value between the least and the
\* greatest extracted value up to the rounding of f64, that is between
\* least * (1 - 2^-52) and greatest * (1 + 2^-52).
C28_WithinRounding ==
    [][(frame' # frame /\ Len(dashboard.conn_history) >= 2 /\ TargetLenOf(frame.width) >= 1)
          => LET h == dashboard.conn_history
                 n == TargetLenOf(frame.width)
             IN  \A field \in {"total", "idle"} :
                    /\ EndsAndIndex(LineOf(frame', field), h, n, field)
                    /\ \A k \in 1..n :
                          WithinRounding(LineOf(frame', field)[k].v,
                                         LeastOf(h, field), GreatestOf(h, field))]_vars

\* two samples of total 3 have been drawn over 6 points: the line starts and
\* ends at 3 and its second point lies above 3
C28_Witness ==
    /\ frame.drawn
    /\ dashboard.conn_history = <<(<<0, 3, 3>>), (<<2, 1, 3>>)>>
    /\ Len(frame.total_data) = 6
    /\ IsInt(frame.total_data[1].v, 3)
    /\ IsInt(frame.total_data[6].v, 3)
    /\ DyCmp(frame.total_data[2].v, F64OfInt(3)) = 1

====
